---- MODULE Spec2Model ----
(***************************************************************************)
(* A model of the wavelet subband coder of rust_wsq: the four-class filter *)
(* (src/src/swt/filter.rs), the mirrored signal extension                  *)
(* (src/src/swt/signal.rs) and the 1-D / 2-D analysis and synthesis        *)
(* (src/src/swt.rs).                                                       *)
(*                                                                         *)
(* Samples and coefficients are f64 in the program.  The model keeps them  *)
(* as integers in fixed point: a stored coefficient c stands for the f64   *)
(* value c / Unit, and a sample that has passed through k filter           *)
(* applications is held multiplied by Unit^k.  All values of the model are *)
(* small dyadic rationals, on which f64 arithmetic is exact.               *)
(***************************************************************************)
EXTENDS Integers, Sequences, FiniteSets, TLC

VARIABLES
    pc,          \* position of the driver of the specification in force
    filter,      \* filter.rs: the Filter under iteration / inversion
    orig,        \* the Filter as first constructed
    inverted,    \* number of Filter::invert calls applied to orig
    fiter,       \* filter.rs FilterIter: [index, period]
    fout,        \* items FilterIter::next has yielded so far
    fnone,       \* number of calls of FilterIter::next that returned None
    sig,         \* signal.rs: the slice a SignalExtension borrows
    siter,       \* signal.rs SignalIter: [kind, index, dir, period_count]
    sout,        \* items SignalIter::next has yielded so far
    snone,       \* number of calls of SignalIter::next that returned None
    overflow_checks, \* build profile: TRUE = debug (usize overflow panics)
    coder,       \* swt.rs TwoChannelSubbandCoder (four filters)
    signal,      \* 1-D input of analysis_1d
    a_0,         \* 1-D lowpass subband handed to synthesis_1d
    a_1,         \* 1-D highpass subband handed to synthesis_1d
    x_hat,       \* 1-D result of synthesis_1d
    image,       \* 2-D input FloatImage
    a_row,       \* result of row_analysis: <<lowpass image, highpass image>>
    quad,        \* result of analysis: <<LL, LH, HL, HH>>
    y,           \* intermediates of synthesis: <<y_0, y_1>>
    recon,       \* result of synthesis
    passes,      \* the 2-D passes executed so far, in order
    applied,     \* filter.rs: result of Filter::apply on signal
    d_input,     \* dwt: the slice handed to an operation of one_dimension.rs
    d_ext,       \* dwt: a symmetric extension iterator [kind, index, dir]
    d_emitted,   \* dwt: what next() of d_ext has returned so far, in order
    d_kernel,    \* dwt: coefficients of a LinearTimeInvariantFilter
    d_output,    \* dwt: result of LinearTimeInvariantFilter::apply
    d_coder,     \* dwt: TwoChannelSubbandCoder (four coefficient vectors)
    d_sub,       \* dwt: result of analysis: <<a_0, a_1>>
    d_x_hat,     \* dwt: result of synthesis
    d_down,      \* results of downsample: <<swt, dwt>>
    d_up,        \* results of upsample: <<swt, dwt>>
    from_value,  \* swt.rs: the Vec<Vec<f64>> handed to FloatImage::from
    prev_image,  \* the FloatImage before the last operation applied to it
    columns_col, \* swt.rs Columns: the field col of the iterator
    cols_out,    \* what Columns::next has returned so far, in order
    normalized,  \* data of the image after auto_normalize (f64 as fractions)
    ops          \* the FloatImage operations applied to image, in order

vars == <<pc, filter, orig, inverted, fiter, fout, fnone, sig, siter, sout,
          snone, overflow_checks, coder, signal, a_0, a_1, x_hat, image,
          a_row, quad, y, recon, passes, applied, d_input, d_ext, d_emitted,
          d_kernel, d_output, d_coder, d_sub, d_x_hat, d_down, d_up,
          from_value, prev_image, columns_col, cols_out, normalized, ops>>

filterVars == <<filter, orig, inverted, fiter, fout, fnone>>
signalVars == <<sig, siter, sout, snone>>
oneDVars == <<signal, a_0, a_1, x_hat>>
twoDVars == <<image, a_row, quad, y, recon, passes>>
applyVars == <<applied>>
dwtVars == <<d_input, d_ext, d_emitted, d_kernel, d_output, d_coder, d_sub,
             d_x_hat, d_down, d_up>>
imageVars == <<from_value, prev_image, columns_col, cols_out, normalized,
               ops>>
laterVars == <<applyVars, dwtVars, imageVars>>

(***************************************************************************)
(* Bounds of the model.                                                    *)
(***************************************************************************)
MaxLen == 3        \* stored coefficients of a filter under iteration
MaxSignal == 5     \* samples of a signal under extension
MaxNone == 2       \* calls of next() followed past the end of an iterator
MaxInvert == 2     \* successive calls of Filter::invert
MaxEmit == 14      \* items of a signal extension followed
MaxCoderLen == 2   \* stored coefficients of a filter of a coder
MaxN == 5          \* samples of a 1-D signal handed to a coder
MaxSub == 2        \* samples of a subband handed directly to synthesis_1d
MaxDim == 4        \* width and height of an image handed to a coder
MaxTerms == 16     \* items of a dwt symmetric extension followed
MaxKernel == 3     \* coefficients of a LinearTimeInvariantFilter
MaxRows == 3       \* rows, and samples of a row, handed to FloatImage::from
MaxOps == 2        \* operations applied in turn to one FloatImage

\* Fixed-point resolution of the f64 values: a stored coefficient c is c/Unit.
Unit == 2

\* usize::MAX, narrowed to the integers of the checker; only its being larger
\* than every length of the model matters.
UsizeMax == 2147483647

None == <<>>
Some(v) == <<v>>

\* the element of a one-element set; {e(x) : x \in {v}} evaluates v once
Only(S) == CHOOSE x \in S : TRUE

CoefValues == {1, 2, 3}

Classes == {"WSS", "HSS", "WSA", "HSA"}
WholeSampleClasses == {"WSS", "WSA"}
AntisymmetricClasses == {"WSA", "HSA"}

SeqsOf(S, lo, hi) == UNION {[1..n -> S] : n \in lo..hi}

MkFilter(class, coefficients) == [class |-> class, coefficients |-> coefficients]

Filters(lo, hi) == {MkFilter(c, v) : c \in Classes, v \in SeqsOf(CoefValues, lo, hi)}

\* usize subtraction in a release build: wraps modulo the width.
WrapSub(a, b) == IF a >= b THEN a - b ELSE UsizeMax - (b - a) + 1

(***************************************************************************)
(* filter.rs                                                               *)
(***************************************************************************)
\* Filter::len
FilterLen(f) ==
    IF f.class \in WholeSampleClasses
    THEN WrapSub(Len(f.coefficients) * 2, 1)
    ELSE Len(f.coefficients) * 2

\* FilterExtension::period
Period(f) ==
    IF f.class \in WholeSampleClasses
    THEN WrapSub(Len(f.coefficients) * 2, 1)
    ELSE Len(f.coefficients) * 2

\* FilterExtension::into_iter (through Filter::coefficients)
FilterIntoIter(f) == [index |-> 0, period |-> Period(f)]

\* FilterIter::next: the item returned (None at and past the end).  Slices are
\* 0-based in the program and 1-based here.
FilterIterItemNoNeg(f, it) ==
    LET extension == f.coefficients
        whole_sample_offset == IF f.class \in WholeSampleClasses THEN 1 ELSE 0
        last_mirrored == Len(extension) - whole_sample_offset
    IN  IF it.index = it.period THEN None
        ELSE IF it.index < last_mirrored
             THEN Some(extension[(Len(extension) - it.index - 1) + 1])
        ELSE IF it.index < it.period
             THEN Some(extension[(it.index - last_mirrored) + 1])
        ELSE None

FilterIterItem(f, it) ==
    LET extension == f.coefficients
        highpass == f.class \in AntisymmetricClasses
        whole_sample_offset == IF f.class \in WholeSampleClasses THEN 1 ELSE 0
        last_mirrored == Len(extension) - whole_sample_offset
    IN  IF it.index = it.period THEN None
        ELSE IF it.index < last_mirrored
             THEN LET coefficient == extension[(Len(extension) - it.index - 1) + 1]
                  IN  IF highpass THEN Some(-coefficient) ELSE Some(coefficient)
        ELSE IF it.index < it.period
             THEN Some(extension[(it.index - last_mirrored) + 1])
        ELSE None

\* FilterIter::next: the iterator afterwards (index is advanced on every call).
FilterIterAdvance(it) == [it EXCEPT !.index = @ + 1]

\* Filter::coefficients().collect(): every item up to the first None.
RECURSIVE CollectFilter(_, _)
CollectFilter(f, it) ==
    LET item == FilterIterItem(f, it)
    IN  IF item = None THEN <<>>
        ELSE item \o CollectFilter(f, FilterIterAdvance(it))

Coefficients(f) == CollectFilter(f, FilterIntoIter(f))

\* Filter::invert_even_negative / invert_odd_negative (i is the 0-based index)
invert_even_negative(coefficients) ==
    [k \in 1..Len(coefficients) |->
        IF (k - 1) % 2 = 0 THEN -coefficients[k] ELSE coefficients[k]]

\* invert_odd_negative that negates no coefficient
invert_odd_kept(coefficients) == coefficients

invert_odd_negative(coefficients) ==
    [k \in 1..Len(coefficients) |->
        IF (k - 1) % 2 = 1 THEN -coefficients[k] ELSE coefficients[k]]

\* Filter::invert, with both arms negating the even-indexed coefficients.
invert_always_even(f) ==
    CASE f.class = "WSS" -> MkFilter("WSA", invert_even_negative(f.coefficients))
      [] f.class = "WSA" -> MkFilter("WSS", invert_even_negative(f.coefficients))
      [] f.class = "HSS" -> MkFilter("HSA", invert_even_negative(f.coefficients))
      [] f.class = "HSA" -> MkFilter("HSS", invert_even_negative(f.coefficients))

\* Filter::invert
invert(f) ==
    CASE f.class = "WSS" -> MkFilter("WSA", invert_even_negative(f.coefficients))
      [] f.class = "WSA" -> MkFilter("WSS", invert_odd_negative(f.coefficients))
      [] f.class = "HSS" -> MkFilter("HSA", invert_even_negative(f.coefficients))
      [] f.class = "HSA" -> MkFilter("HSS", invert_odd_negative(f.coefficients))

(***************************************************************************)
(* signal.rs                                                               *)
(***************************************************************************)
\* into_iter with both kinds starting at index 0.
SignalIntoIterAtZero(kind) ==
    [kind |-> kind, index |-> 0, dir |-> -1, period_count |-> 2]

\* into_iter with period_count: 1
SignalIntoIterOnePeriod(kind) ==
    [kind |-> kind,
     index |-> IF kind = "HalfSample" THEN 0 ELSE 1,
     dir |-> -1,
     period_count |-> 1]

\* SignalExtension::into_iter; kind is "HalfSample" or "WholeSample"
SignalIntoIter(kind) ==
    [kind |-> kind,
     index |-> IF kind = "HalfSample" THEN 0 ELSE 1,
     dir |-> -1,
     period_count |-> 2]

\* slice::get (0-based index): a reference to sample i of the slice, held as
\* the position it points at.
Get(s, i) == IF i >= 0 /\ i < Len(s) THEN Some(i) ELSE None

\* *s for a reference s that Get returned
Deref(s, ref) == s[ref + 1]

\* SignalIter::next on the slice s: the iterator afterwards, the item returned
\* and whether the call panics.  usize subtraction that goes below zero panics
\* with overflow checks (debug) and wraps without them (release).
SignalIterNext(s, it, checks) ==
    LET atStart == it.index = 0 /\ it.dir = -1
        count == WrapSub(it.period_count, 1)
        last == WrapSub(Len(s), 1)
        atEnd == it.index = last /\ it.dir = 1
    IN  IF atStart /\ checks /\ it.period_count = 0
        THEN [iter |-> it, item |-> None, panic |-> TRUE]
        ELSE IF atStart /\ count = 0
        THEN [iter |-> [it EXCEPT !.period_count = count],
              item |-> None, panic |-> FALSE]
        ELSE IF ~atStart /\ checks /\ Len(s) = 0
        THEN [iter |-> it, item |-> None, panic |-> TRUE]
        ELSE LET dir == IF atStart THEN 1 ELSE IF atEnd THEN -1 ELSE it.dir
                 index == IF it.kind = "HalfSample"
                          THEN IF atStart \/ atEnd THEN it.index
                               ELSE it.index + it.dir
                          ELSE it.index + dir
             IN  [iter |-> [it EXCEPT !.period_count =
                                          IF atStart THEN count ELSE @,
                                      !.dir = dir,
                                      !.index = index],
                  item |-> Get(s, index),
                  panic |-> FALSE]

\* signal_extension.into_iter() driven to its first None: the items, and
\* whether a call panicked on the way.
RECURSIVE CollectSignal(_, _, _)
CollectSignal(s, it, checks) ==
    Only({IF r.panic THEN [items |-> <<>>, panic |-> TRUE]
          ELSE IF r.item = None THEN [items |-> <<>>, panic |-> FALSE]
          ELSE Only({[items |-> r.item \o rest.items, panic |-> rest.panic] :
                        rest \in {CollectSignal(s, r.iter, checks)}}) :
             r \in {SignalIterNext(s, it, checks)}})

KindOf(f) == IF f.class \in WholeSampleClasses THEN "WholeSample" ELSE "HalfSample"

\* the inner loop of Filter::apply: the sum over j in j..i of
\* stacked[i - j][j], where stacked.get(i - j) and column.get(j) exist
RECURSIVE DiagSum(_, _, _, _)
DiagSum(coefficients, extended, i, j) ==
    IF j > i THEN 0
    ELSE (IF i - j < Len(extended) /\ j < Len(coefficients)
          THEN coefficients[j + 1] * extended[i - j + 1] ELSE 0)
         + DiagSum(coefficients, extended, i, j + 1)

\* Filter::apply after the two extensions are collected: stacked[r][c] =
\* coefficient c * extended sample r, boundary = len() / 2 - offset.
Convolve(f, coefficients, extended, checks, offset) ==
    LET max_size == (Len(extended) + Len(coefficients) - 1) \div 2
        half == FilterLen(f) \div 2
        boundary == WrapSub(half, offset)
    IN  IF checks /\ half < offset
        THEN [out |-> <<>>, panic |-> TRUE]   \* len() / 2 - 1
        ELSE [out |-> [k \in 1..(IF max_size > boundary
                                THEN max_size - boundary ELSE 0) |->
                          DiagSum(coefficients, extended, boundary + k - 1, 0)],
              panic |-> FALSE]

\* Filter::apply: [out, panic]
ApplyFrom(f, s, checks, offset) ==
    LET L == Len(f.coefficients)
        whole == f.class \in WholeSampleClasses
    IN  IF whole /\ L = 0 /\ checks
        THEN [out |-> <<>>, panic |-> TRUE]      \* period(): 0 * 2 - 1
        ELSE Only({
            IF ext.panic THEN [out |-> <<>>, panic |-> TRUE]
            ELSE IF Len(ext.items) > 0 /\ whole /\ L = 0
            THEN [out |-> <<>>, panic |-> TRUE]  \* extension[len - index - 1]
            ELSE IF Len(ext.items) = 0
            THEN [out |-> <<>>, panic |-> TRUE]  \* stacked[0]
            ELSE Only({Convolve(f, coefficients, extended, checks, offset) :
                          coefficients \in {Coefficients(f)},
                          extended \in {[r \in 1..Len(ext.items) |->
                                            Deref(s, ext.items[r])]}}) :
                ext \in {CollectSignal(s, SignalIntoIter(KindOf(f)), checks)}})

\* Filter::apply
Apply(f, s, checks) == ApplyFrom(f, s, checks, 1)

(***************************************************************************)
(* swt.rs: FloatImage                                                      *)
(***************************************************************************)
\* min_value and max_value are f64 that row_synthesis and column_synthesis
\* halve; they are held as exact reduced fractions [n, d].
RECURSIVE Reduce(_, _)
Reduce(n, d) == IF d > 1 /\ n % 2 = 0 /\ d % 2 = 0
                THEN Reduce(n \div 2, d \div 2) ELSE [n |-> n, d |-> d]

Rat(n) == [n |-> n, d |-> 1]

\* (a + b) / 2.
Mean2(a, b) == Reduce(a.n * b.d + b.n * a.d, 2 * a.d * b.d)

\* value.into_iter().flatten().collect()
RECURSIVE FlattenFrom(_, _)
FlattenFrom(rows, r) ==
    IF r > Len(rows) THEN <<>> ELSE rows[r] \o FlattenFrom(rows, r + 1)

Flatten(rows) == FlattenFrom(rows, 1)

\* impl From<Vec<Vec<f64>>> for FloatImage; value[0] panics on an empty list.
FromPanics(value) == Len(value) = 0

From(value) ==
    [data |-> Flatten(value),
     width |-> Len(value[1]),
     height |-> Len(value),
     min_value |-> Rat(0),
     max_value |-> Rat(1)]

CeilDiv(a, b) == (a + b - 1) \div b

\* FloatImage::rows: data.chunks(width); chunks panics on a chunk size of 0.
RowsPanics(img) == img.width = 0

Rows(img) ==
    [r \in 1..CeilDiv(Len(img.data), img.width) |->
        SubSeq(img.data, (r - 1) * img.width + 1,
               IF r * img.width < Len(img.data) THEN r * img.width
               ELSE Len(img.data))]

\* Columns::next driven to None: column col gathers data[i + col] for
\* i = 0, width, 2 * width, ... below data.len(); the index panics when it
\* falls outside data.
ColumnPanics(img, col) ==
    /\ col < img.width
    /\ Len(img.data) > 0
    /\ (CeilDiv(Len(img.data), img.width) - 1) * img.width + col >= Len(img.data)

ColumnsPanics(img) == \E col \in 0..(img.width - 1) : ColumnPanics(img, col)

Columns(img) ==
    IF img.width = 0 THEN <<>>
    ELSE [c \in 1..img.width |->
            [r \in 1..CeilDiv(Len(img.data), img.width) |->
                img.data[(r - 1) * img.width + (c - 1) + 1]]]

\* FloatImage::rotate without the exchange of width and height.
rotate_keep_dims(img) == [img EXCEPT !.data = Flatten(Columns(img))]

\* FloatImage::rotate
rotate(img) ==
    [img EXCEPT !.data = Flatten(Columns(img)),
                !.width = img.height,
                !.height = img.width]

(***************************************************************************)
(* swt.rs: TwoChannelSubbandCoder                                          *)
(***************************************************************************)
\* TwoChannelSubbandCoder::new
new(h_lowpass, h_highpass) ==
    [h_lowpass |-> h_lowpass,
     h_highpass |-> h_highpass,
     f_lowpass |-> invert(h_highpass),
     f_highpass |-> invert(h_lowpass)]

\* downsample that keeps the odd-indexed samples.
downsample_odd(s) == [k \in 1..(Len(s) \div 2) |-> s[2 * k]]

\* downsample: the samples at the even 0-based indices
downsample(s) == [k \in 1..CeilDiv(Len(s), 2) |-> s[2 * (k - 1) + 1]]

\* upsample: result[i * 2] = signal[i], zero elsewhere
upsample(s) == [k \in 1..(Len(s) * 2) |->
                   IF (k - 1) % 2 = 0 THEN s[(k - 1) \div 2 + 1] ELSE 0]

\* Analysis::analysis_1d: [a_0, a_1, panic]
analysis_1d(c, s, checks) ==
    Only({IF lowpassed.panic \/ highpassed.panic
          THEN [a_0 |-> <<>>, a_1 |-> <<>>, panic |-> TRUE]
          ELSE [a_0 |-> downsample(lowpassed.out),
                a_1 |-> downsample(highpassed.out),
                panic |-> FALSE] :
             lowpassed \in {Apply(c.h_lowpass, s, checks)},
             highpassed \in {Apply(c.h_highpass, s, checks)}})

Min(a, b) == IF a < b THEN a ELSE b

MaxOf(a, b) == IF a > b THEN a ELSE b

\* Synthesis::synthesis_1d: [out, panic]; zip stops at the shorter operand.
synthesis_1d(c, s_0, s_1, checks) ==
    Only({IF x_hat_0.panic \/ x_hat_1.panic
          THEN [out |-> <<>>, panic |-> TRUE]
          ELSE [out |-> [k \in 1..Min(Len(x_hat_0.out), Len(x_hat_1.out)) |->
                            x_hat_0.out[k] + x_hat_1.out[k]],
                panic |-> FALSE] :
             x_hat_0 \in {Apply(c.f_lowpass, upsample(s_0), checks)},
             x_hat_1 \in {Apply(c.f_highpass, upsample(s_1), checks)}})

PanicPair == [lowpass |-> <<>>, highpass |-> <<>>, panic |-> TRUE]
PanicImage == [image |-> <<>>, panic |-> TRUE]

\* the loop of row_analysis / column_analysis: analysis_1d on each slice
RECURSIVE AnalyseEach(_, _, _, _)
AnalyseEach(c, slices, k, checks) ==
    IF k > Len(slices) THEN <<>>
    ELSE <<analysis_1d(c, slices[k], checks)>> \o AnalyseEach(c, slices, k + 1, checks)

\* the loop of row_synthesis / column_synthesis: synthesis_1d on each pair
\* that zip yields
RECURSIVE SynthesizeEach(_, _, _, _, _)
SynthesizeEach(c, slices_0, slices_1, k, checks) ==
    IF k > Min(Len(slices_0), Len(slices_1)) THEN <<>>
    ELSE <<synthesis_1d(c, slices_0[k], slices_1[k], checks)>>
         \o SynthesizeEach(c, slices_0, slices_1, k + 1, checks)

\* Analysis::row_analysis: [lowpass, highpass, panic]
row_analysis(c, img, checks) ==
    IF RowsPanics(img) THEN PanicPair
    ELSE Only({
        IF \E r \in 1..Len(done) : done[r].panic THEN PanicPair
        ELSE IF FromPanics(done) THEN PanicPair
        ELSE [lowpass |-> From([r \in 1..Len(done) |-> done[r].a_0]),
              highpass |-> From([r \in 1..Len(done) |-> done[r].a_1]),
              panic |-> FALSE] :
            done \in {AnalyseEach(c, Rows(img), 1, checks)}})

\* Analysis::column_analysis: [lowpass, highpass, panic]
column_analysis(c, img, checks) ==
    IF ColumnsPanics(img) THEN PanicPair
    ELSE Only({
        IF \E k \in 1..Len(done) : done[k].panic THEN PanicPair
        ELSE IF FromPanics(done) THEN PanicPair
        ELSE [lowpass |-> rotate(From([k \in 1..Len(done) |-> done[k].a_0])),
              highpass |-> rotate(From([k \in 1..Len(done) |-> done[k].a_1])),
              panic |-> FALSE] :
            done \in {AnalyseEach(c, Columns(img), 1, checks)}})

\* Synthesis::row_synthesis: [image, panic]; zip stops at the shorter operand.
row_synthesis(c, image_lowpass, image_highpass, checks) ==
    IF RowsPanics(image_lowpass) \/ RowsPanics(image_highpass) THEN PanicImage
    ELSE Only({
        IF \E r \in 1..Len(done) : done[r].panic THEN PanicImage
        ELSE IF FromPanics(done) THEN PanicImage
        ELSE [image |-> [From([r \in 1..Len(done) |-> done[r].out]) EXCEPT
                            !.max_value = Mean2(image_highpass.max_value,
                                                image_lowpass.max_value)],
              panic |-> FALSE] :
            done \in {SynthesizeEach(c, Rows(image_lowpass),
                                     Rows(image_highpass), 1, checks)}})

\* Synthesis::column_synthesis: [image, panic]
column_synthesis(c, image_lowpass, image_highpass, checks) ==
    IF \/ \E k \in 0..Min(image_lowpass.width, image_highpass.width) :
              ColumnPanics(image_lowpass, k)
       \/ \E k \in 0..(Min(image_lowpass.width, image_highpass.width) - 1) :
              ColumnPanics(image_highpass, k)
    THEN PanicImage
    ELSE Only({
        IF \E k \in 1..Len(done) : done[k].panic THEN PanicImage
        ELSE IF FromPanics(done) THEN PanicImage
        ELSE [image |-> [rotate(From([k \in 1..Len(done) |-> done[k].out])) EXCEPT
                            !.max_value = Mean2(image_highpass.max_value,
                                                image_lowpass.max_value)],
              panic |-> FALSE] :
            done \in {SynthesizeEach(c, Columns(image_lowpass),
                                     Columns(image_highpass), 1, checks)}})

(***************************************************************************)
(* Values of the variables a specification does not use.                   *)
(***************************************************************************)
NoFilter == MkFilter("WSS", <<>>)
NoImage == [data |-> <<>>, width |-> 0, height |-> 0,
            min_value |-> Rat(0), max_value |-> Rat(0)]

IdleFilter ==
    /\ filter = NoFilter /\ orig = NoFilter /\ inverted = 0
    /\ fiter = [index |-> 0, period |-> 0] /\ fout = <<>> /\ fnone = 0

IdleSignal ==
    /\ sig = <<>> /\ siter = SignalIntoIter("HalfSample")
    /\ sout = <<>> /\ snone = 0

IdleCoder == coder = new(NoFilter, NoFilter)

IdleOneD == signal = <<>> /\ a_0 = <<>> /\ a_1 = <<>> /\ x_hat = <<>>

IdleTwoD ==
    /\ image = NoImage /\ a_row = <<>> /\ quad = <<>> /\ y = <<>>
    /\ recon = NoImage /\ passes = <<>>

NotApplied == [out |-> <<>>, panic |-> FALSE]

IdleApply == applied = NotApplied

IdleDwt ==
    /\ d_input = <<>> /\ d_emitted = <<>>
    /\ d_ext = [kind |-> "WholeSample", index |-> 0, dir |-> 1]
    /\ d_kernel = <<>> /\ d_output = <<>>
    /\ d_coder = [h_lowpass |-> <<>>, h_highpass |-> <<>>,
                  f_lowpass |-> <<>>, f_highpass |-> <<>>]
    /\ d_sub = <<>> /\ d_x_hat = <<>> /\ d_down = <<>> /\ d_up = <<>>

IdleImage ==
    /\ from_value = <<>> /\ prev_image = NoImage
    /\ columns_col = 0 /\ cols_out = <<>>
    /\ normalized = <<>> /\ ops = <<>>

IdleLater == IdleApply /\ IdleDwt /\ IdleImage

(***************************************************************************)
(* Inputs of the coder specifications.                                     *)
(***************************************************************************)
\* stored coefficient vectors of n coefficients: first, then 1, 1, ...
Vector(first, n) == [k \in 1..n |-> IF k = 1 THEN first ELSE 1]

\* analysis lowpass filters (first coefficient 2/Unit = 1.0) and analysis
\* highpass filters (first coefficient 1/Unit = 0.5) of lo..hi coefficients
LowpassFilters(lo, hi) ==
    {MkFilter(c, Vector(2, n)) : c \in Classes, n \in lo..hi}

HighpassFilters(lo, hi) ==
    {MkFilter(c, Vector(1, n)) : c \in Classes, n \in lo..hi}

\* the slice of n samples whose sample i (0-based) is i + 1
Ramp(n) == [k \in 1..n |-> k]

\* the slice of n samples that is 1 at 0-based position p and 0 elsewhere
Impulse(n, p) == [k \in 1..n |-> IF k = p + 1 THEN 1 ELSE 0]

Signals == UNION {{Ramp(n)} \cup {Impulse(n, p) : p \in 0..(n - 1)} : n \in 1..MaxN}

Subbands == {Ramp(n) : n \in 1..MaxSub}

\* the h rows of w samples of a ramp image and of an impulse image
RampRows(w, h) == [r \in 1..h |-> [c \in 1..w |-> (r - 1) * w + c]]

ImpulseRows(w, h, p) ==
    [r \in 1..h |-> [c \in 1..w |-> IF (r - 1) * w + c = p THEN 1 ELSE 0]]

Images ==
    UNION {{From(RampRows(w, h)), From(ImpulseRows(w, h, w * h))} :
              w \in 1..MaxDim, h \in 1..MaxDim}

RampImages == {From(RampRows(w, h)) : w \in 1..MaxSub, h \in 1..MaxSub}

(***************************************************************************)
(* SpecFilter: a Filter is constructed, inverted and its mirrored          *)
(* coefficient sequence is read with FilterIter::next.                     *)
(***************************************************************************)
InitFilter ==
    /\ pc = "filter"
    /\ filter \in Filters(1, MaxLen)
    /\ orig = filter
    /\ inverted = 0
    /\ fiter = FilterIntoIter(filter)
    /\ fout = <<>>
    /\ fnone = 0
    /\ overflow_checks = TRUE
    /\ IdleSignal /\ IdleCoder /\ IdleOneD /\ IdleTwoD
    /\ IdleLater

\* one call of FilterIter::next
FilterIterNext ==
    /\ pc = "filter"
    /\ fnone < MaxNone
    /\ LET item == FilterIterItem(filter, fiter)
       IN  /\ fiter' = FilterIterAdvance(fiter)
           /\ fout' = fout \o item
           /\ fnone' = IF item = None THEN fnone + 1 ELSE fnone
    /\ UNCHANGED <<pc, filter, orig, inverted, overflow_checks, coder>>
    /\ UNCHANGED <<signalVars, oneDVars, twoDVars>>
    /\ UNCHANGED laterVars

\* Filter::invert, followed by coefficients() on the result
Invert ==
    /\ pc = "filter"
    /\ inverted < MaxInvert
    /\ filter' = invert(filter)
    /\ inverted' = inverted + 1
    /\ fiter' = FilterIntoIter(filter')
    /\ fout' = <<>>
    /\ fnone' = 0
    /\ UNCHANGED <<pc, orig, overflow_checks, coder>>
    /\ UNCHANGED <<signalVars, oneDVars, twoDVars>>
    /\ UNCHANGED laterVars

NextFilter == FilterIterNext \/ Invert

SpecFilter == InitFilter /\ [][NextFilter]_vars

(***************************************************************************)
(* SpecSignal: a SignalExtension over a slice is read with                 *)
(* SignalIter::next.                                                       *)
(***************************************************************************)
InitSignal ==
    /\ pc = "signal"
    /\ \E n \in 1..MaxSignal : sig = Ramp(n)
    /\ \E kind \in {"HalfSample", "WholeSample"} : siter = SignalIntoIter(kind)
    /\ sout = <<>>
    /\ snone = 0
    /\ overflow_checks \in BOOLEAN
    /\ IdleFilter /\ IdleCoder /\ IdleOneD /\ IdleTwoD
    /\ IdleLater

\* one call of SignalIter::next
SignalNext ==
    /\ pc = "signal"
    /\ snone < MaxNone
    /\ Len(sout) < MaxEmit
    /\ \E r \in {SignalIterNext(sig, siter, overflow_checks)} :
           /\ pc' = IF r.panic THEN "panic" ELSE pc
           /\ siter' = r.iter
           /\ sout' = sout \o r.item
           /\ snone' = IF r.item = None /\ ~r.panic THEN snone + 1 ELSE snone
    /\ UNCHANGED <<sig, overflow_checks, coder>>
    /\ UNCHANGED <<filterVars, oneDVars, twoDVars>>
    /\ UNCHANGED laterVars

NextSignal == SignalNext

SpecSignal == InitSignal /\ [][NextSignal]_vars

(***************************************************************************)
(* Spec: a constructed coder is used on images.  Analysis::analysis and    *)
(* Synthesis::synthesis are followed pass by pass, in the order of their   *)
(* statements; row_synthesis and column_synthesis are also called on image *)
(* pairs the caller supplies.  A panic ends the run.                       *)
(***************************************************************************)
\* coders of every pair of classes; the highpass filter stores as many
\* coefficients as the lowpass filter, or one fewer
Coders ==
    UNION {{new(h_lowpass, h_highpass) :
                h_lowpass \in LowpassFilters(n, n),
                h_highpass \in HighpassFilters(MaxOf(1, n - 1), n)} :
              n \in 1..MaxCoderLen}

Init ==
    /\ pc = "start"
    /\ overflow_checks \in BOOLEAN
    /\ coder \in Coders
    /\ image \in Images
    /\ a_row = <<>> /\ quad = <<>> /\ y = <<>>
    /\ recon = NoImage
    /\ passes = <<>>
    /\ IdleFilter /\ IdleSignal /\ IdleOneD
    /\ IdleLater

Pass(op, first, second) == [op |-> op, on |-> <<first, second>>]

\* analysis: let a_row = self.row_analysis(image)?
RowAnalysis ==
    /\ pc = "start"
    /\ \E r \in {row_analysis(coder, image, overflow_checks)} :
           /\ a_row' = IF r.panic THEN a_row ELSE <<r.lowpass, r.highpass>>
           /\ pc' = IF r.panic THEN "panic" ELSE "row_analysed"
    /\ passes' = Append(passes, Pass("row_analysis", "image", "image"))
    /\ UNCHANGED <<image, quad, y, recon, coder, overflow_checks>>
    /\ UNCHANGED <<filterVars, signalVars, oneDVars>>
    /\ UNCHANGED laterVars

\* analysis: let a_0 = self.column_analysis(&a_row.0)?
ColumnAnalysisLow ==
    /\ pc = "row_analysed"
    /\ \E r \in {column_analysis(coder, a_row[1], overflow_checks)} :
           /\ quad' = IF r.panic THEN quad ELSE <<r.lowpass, r.highpass>>
           /\ pc' = IF r.panic THEN "panic" ELSE "low_analysed"
    /\ passes' = Append(passes, Pass("column_analysis", "a_row.0", "a_row.0"))
    /\ UNCHANGED <<image, a_row, y, recon, coder, overflow_checks>>
    /\ UNCHANGED <<filterVars, signalVars, oneDVars>>
    /\ UNCHANGED laterVars

\* analysis: let a_1 = self.column_analysis(&a_row.1)?; Ok((a_0.0, a_0.1,
\* a_1.0, a_1.1))
ColumnAnalysisHigh ==
    /\ pc = "low_analysed"
    /\ \E r \in {column_analysis(coder, a_row[2], overflow_checks)} :
           /\ quad' = IF r.panic THEN quad
                      ELSE <<quad[1], quad[2], r.lowpass, r.highpass>>
           /\ pc' = IF r.panic THEN "panic" ELSE "analysed"
    /\ passes' = Append(passes, Pass("column_analysis", "a_row.1", "a_row.1"))
    /\ UNCHANGED <<image, a_row, y, recon, coder, overflow_checks>>
    /\ UNCHANGED <<filterVars, signalVars, oneDVars>>
    /\ UNCHANGED laterVars

\* synthesis: let y_0 = self.row_synthesis(&a.0, &a.1)?
SynthesisFirst ==
    /\ pc = "analysed"
    /\ \E r \in {row_synthesis(coder, quad[1], quad[2], overflow_checks)} :
           /\ y' = IF r.panic THEN y ELSE <<r.image>>
           /\ pc' = IF r.panic THEN "panic" ELSE "y_0"
    /\ passes' = Append(passes, Pass("row_synthesis", "LL", "LH"))
    /\ UNCHANGED <<image, a_row, quad, recon, coder, overflow_checks>>
    /\ UNCHANGED <<filterVars, signalVars, oneDVars>>
    /\ UNCHANGED laterVars

\* synthesis: let y_1 = self.row_synthesis(&a.2, &a.3)?
SynthesisSecond ==
    /\ pc = "y_0"
    /\ \E r \in {row_synthesis(coder, quad[3], quad[4], overflow_checks)} :
           /\ y' = IF r.panic THEN y ELSE <<y[1], r.image>>
           /\ pc' = IF r.panic THEN "panic" ELSE "y_1"
    /\ passes' = Append(passes, Pass("row_synthesis", "HL", "HH"))
    /\ UNCHANGED <<image, a_row, quad, recon, coder, overflow_checks>>
    /\ UNCHANGED <<filterVars, signalVars, oneDVars>>
    /\ UNCHANGED laterVars

\* synthesis: let x_hat = self.column_synthesis(&y_0, &y_1)?; Ok(x_hat)
SynthesisLast ==
    /\ pc = "y_1"
    /\ \E r \in {column_synthesis(coder, y[1], y[2], overflow_checks)} :
           /\ recon' = IF r.panic THEN recon ELSE r.image
           /\ pc' = IF r.panic THEN "panic" ELSE "synthesized"
    /\ passes' = Append(passes, Pass("column_synthesis", "y_0", "y_1"))
    /\ UNCHANGED <<image, a_row, quad, y, coder, overflow_checks>>
    /\ UNCHANGED <<filterVars, signalVars, oneDVars>>
    /\ UNCHANGED laterVars

\* row_synthesis(image_lowpass, image_highpass) on images of the caller
RowSynthesisDirect ==
    /\ pc = "start"
    /\ image \in RampImages
    /\ \E image_highpass \in RampImages :
           \E r \in {row_synthesis(coder, image, image_highpass, overflow_checks)} :
               /\ a_row' = <<image, image_highpass>>
               /\ recon' = IF r.panic THEN recon ELSE r.image
               /\ pc' = IF r.panic THEN "panic" ELSE "row_synthesized"
    /\ UNCHANGED <<image, quad, y, passes, coder, overflow_checks>>
    /\ UNCHANGED <<filterVars, signalVars, oneDVars>>
    /\ UNCHANGED laterVars

\* column_synthesis(image_lowpass, image_highpass) on images of the caller
ColumnSynthesisDirect ==
    /\ pc = "start"
    /\ image \in RampImages
    /\ \E image_highpass \in RampImages :
           \E r \in {column_synthesis(coder, image, image_highpass, overflow_checks)} :
               /\ a_row' = <<image, image_highpass>>
               /\ recon' = IF r.panic THEN recon ELSE r.image
               /\ pc' = IF r.panic THEN "panic" ELSE "column_synthesized"
    /\ UNCHANGED <<image, quad, y, passes, coder, overflow_checks>>
    /\ UNCHANGED <<filterVars, signalVars, oneDVars>>
    /\ UNCHANGED laterVars

Next ==
    \/ RowAnalysis \/ ColumnAnalysisLow \/ ColumnAnalysisHigh
    \/ SynthesisFirst \/ SynthesisSecond \/ SynthesisLast
    \/ RowSynthesisDirect \/ ColumnSynthesisDirect

Spec == Init /\ [][Next]_vars

(***************************************************************************)
(* Claims on Filter::invert and the coefficient iterator (SpecFilter).     *)
(***************************************************************************)
Toggled(class) ==
    CASE class = "WSS" -> "WSA"
      [] class = "WSA" -> "WSS"
      [] class = "HSS" -> "HSA"
      [] class = "HSA" -> "HSS"

\* the filter f one call of invert is claimed to give
ClaimedInverse(f) ==
    MkFilter(Toggled(f.class),
             [k \in 1..Len(f.coefficients) |->
                 IF f.class \in AntisymmetricClasses
                 THEN (IF (k - 1) % 2 = 1 THEN -f.coefficients[k]
                       ELSE f.coefficients[k])
                 ELSE (IF (k - 1) % 2 = 0 THEN -f.coefficients[k]
                       ELSE f.coefficients[k])])

\* the mirrored coefficient sequence of the claim: the mirrored half
\* c[L-1..1] (whole-sample) or c[L-1..0] (half-sample), negated for the
\* antisymmetric classes, then c[0..L-1]
Mirrored(f) ==
    LET c == f.coefficients
        L == Len(c)
        m == IF f.class \in WholeSampleClasses THEN L - 1 ELSE L
        sign == IF f.class \in AntisymmetricClasses THEN -1 ELSE 1
    IN  [k \in 1..(m + L) |-> IF k <= m THEN sign * c[L - k + 1] ELSE c[k - m]]

\* C8: one call of Filter::invert keeps the number and order of the stored
\* coefficients and toggles the class at the same sample parity, negating
\* the even-indexed coefficients of a symmetric filter and the odd-indexed
\* coefficients of an antisymmetric one; the inverse of HSA [1,2,3] reads
\* [3,-2,1,1,-2,3] through the coefficient iterator.
C8_InvertDual ==
    (pc = "filter" /\ inverted = 1) =>
        /\ filter = ClaimedInverse(orig)
        /\ Len(filter.coefficients) = Len(orig.coefficients)
        /\ (orig = MkFilter("HSA", <<1, 2, 3>>) /\ fnone > 0) =>
               /\ filter.class = "HSS"
               /\ fout = <<3, -2, 1, 1, -2, 3>>

C8_Witness ==
    /\ pc = "filter" /\ inverted = 1
    /\ orig = MkFilter("HSA", <<1, 2, 3>>)
    /\ fnone > 0
    /\ fout = <<3, -2, 1, 1, -2, 3>>

\* C9: the coefficient iterator yields the mirrored half (negated for the
\* antisymmetric classes) followed by the stored coefficients, Filter::len()
\* items in all (2L-1 whole-sample, 2L half-sample), and None on every call
\* after them.
C9_MirroredCoefficients ==
    pc = "filter" =>
        LET want == Mirrored(filter)
            L == Len(filter.coefficients)
        IN  /\ Len(want) = FilterLen(filter)
            /\ FilterLen(filter) = IF filter.class \in WholeSampleClasses
                                   THEN 2 * L - 1 ELSE 2 * L
            /\ Len(fout) <= Len(want)
            /\ fout = SubSeq(want, 1, Len(fout))
            /\ fnone = 0 => Len(fout) = fiter.index
            /\ fnone > 0 => fout = want /\ fiter.index = Len(want) + fnone

C9_Witness ==
    /\ pc = "filter"
    /\ filter = MkFilter("WSA", <<3, 2, 1>>)
    /\ fnone = MaxNone
    /\ fout = <<-1, -2, 3, 2, 1>>

(***************************************************************************)
(* Claims on the signal extension (SpecSignal).                            *)
(***************************************************************************)
\* the position the claimed mirror-periodic pattern visits at step k >= 0
MirrorPosition(kind, n, k) ==
    IF kind = "WholeSample"
    THEN LET m == k % (2 * n - 2) IN IF m < n THEN m ELSE 2 * n - 2 - m
    ELSE LET m == k % (2 * n) IN IF m < n THEN m ELSE 2 * n - 1 - m

\* C10: for N >= 2 every item SignalIter::next emits is the sample of the
\* mirror-periodic pattern of its kind, started at s0: period 2N-2 with no
\* endpoint repeated (WholeSample), period 2N with each endpoint emitted
\* twice in a row (HalfSample).
C10_MirrorPeriodic ==
    Len(sig) >= 2 =>
        /\ \A k \in 1..Len(sout) :
               sout[k] = MirrorPosition(siter.kind, Len(sig), k - 1)
        /\ \A k \in 1..(Len(sout) - 1) :
               LET endpoint == sout[k] \in {0, Len(sig) - 1}
                   reflected == k % Len(sig) = 0
               IN  IF siter.kind = "WholeSample"
                   THEN endpoint => sout[k + 1] # sout[k]
                   ELSE (endpoint /\ reflected) => sout[k + 1] = sout[k]

C10_Witness ==
    /\ sig = Ramp(4)
    /\ siter.kind = "WholeSample"
    /\ sout = <<0, 1, 2, 3, 2, 1, 0>>
    /\ snone = 1

(***************************************************************************)
(* Spec1D: a coder is constructed with TwoChannelSubbandCoder::new and     *)
(* used on 1-D signals: analysis_1d then synthesis_1d on its subbands, or  *)
(* synthesis_1d on subbands the caller supplies.                           *)
(***************************************************************************)
Init1D ==
    /\ pc = "start"
    /\ overflow_checks \in BOOLEAN
    /\ IdleCoder /\ IdleOneD
    /\ IdleFilter /\ IdleSignal /\ IdleTwoD
    /\ IdleLater

\* TwoChannelSubbandCoder::new(h_lowpass, h_highpass)
New ==
    /\ pc = "start"
    /\ \E h_lowpass \in LowpassFilters(0, MaxCoderLen),
          h_highpass \in HighpassFilters(0, MaxCoderLen) :
           coder' = new(h_lowpass, h_highpass)
    /\ pc' = "constructed"
    /\ UNCHANGED <<overflow_checks, filterVars, signalVars, oneDVars, twoDVars>>
    /\ UNCHANGED laterVars

\* analysis_1d(signal)
Analysis1d ==
    /\ pc = "constructed"
    /\ \E s \in Signals :
           \E r \in {analysis_1d(coder, s, overflow_checks)} :
               /\ signal' = s
               /\ a_0' = r.a_0
               /\ a_1' = r.a_1
               /\ pc' = IF r.panic THEN "panic" ELSE "analysed"
    /\ UNCHANGED <<x_hat, coder, overflow_checks>>
    /\ UNCHANGED <<filterVars, signalVars, twoDVars>>
    /\ UNCHANGED laterVars

\* synthesis_1d(a_0, a_1) on the subbands analysis_1d returned
Synthesis1d ==
    /\ pc = "analysed"
    /\ \E r \in {synthesis_1d(coder, a_0, a_1, overflow_checks)} :
           /\ x_hat' = r.out
           /\ pc' = IF r.panic THEN "panic" ELSE "synthesized"
    /\ UNCHANGED <<signal, a_0, a_1, coder, overflow_checks>>
    /\ UNCHANGED <<filterVars, signalVars, twoDVars>>
    /\ UNCHANGED laterVars

\* synthesis_1d(a_0, a_1) on subbands of the caller
Synthesis1dDirect ==
    /\ pc = "constructed"
    /\ \E s_0 \in Subbands, s_1 \in Subbands :
           \E r \in {synthesis_1d(coder, s_0, s_1, overflow_checks)} :
               /\ a_0' = s_0
               /\ a_1' = s_1
               /\ x_hat' = r.out
               /\ pc' = IF r.panic THEN "panic" ELSE "synthesized_direct"
    /\ UNCHANGED <<signal, coder, overflow_checks>>
    /\ UNCHANGED <<filterVars, signalVars, twoDVars>>
    /\ UNCHANGED laterVars

Next1D == New \/ Analysis1d \/ Synthesis1d \/ Synthesis1dDirect

Spec1D == Init1D /\ [][Next1D]_vars

(***************************************************************************)
(* Claims on the 1-D coder (Spec1D).                                       *)
(***************************************************************************)
\* coefficient n (0-based) of the product of the polynomials p and q
RECURSIVE ProductCoefficient(_, _, _, _)
ProductCoefficient(p, q, n, i) ==
    IF i >= Len(p) THEN 0
    ELSE (IF n - i >= 0 /\ n - i < Len(q) THEN p[i + 1] * q[n - i + 1] ELSE 0)
         + ProductCoefficient(p, q, n, i + 1)

RECURSIVE SumFrom(_, _)
SumFrom(s, k) == IF k > Len(s) THEN 0 ELSE s[k] + SumFrom(s, k + 1)

SumSeq(s) == SumFrom(s, 1)

Alternated(s) == [k \in 1..Len(s) |-> IF (k - 1) % 2 = 0 THEN s[k] ELSE -s[k]]

\* An analysis pair is complementary when the lowpass filter passes the
\* constant signal and stops the alternating one, the highpass filter stops
\* the constant signal and passes the alternating one, and
\* H0(z)H1(-z) - H0(-z)H1(z) is a pure delay of unit gain: among the
\* coefficients of one parity of the product of the mirrored lowpass
\* sequence with the sign-alternated mirrored highpass sequence, exactly one
\* is not zero, and it is +-1 (Unit * Unit in fixed point).
Complementary(h_lowpass, h_highpass) ==
    /\ Len(h_lowpass.coefficients) > 0
    /\ Len(h_highpass.coefficients) > 0
    /\ LET h0 == Mirrored(h_lowpass)
           h1 == Mirrored(h_highpass)
           alt == Alternated(h1)
           degrees == 0..(Len(h0) + Len(h1) - 2)
           p == [n \in degrees |-> ProductCoefficient(h0, alt, n, 0)]
       IN  /\ SumSeq(h0) # 0 /\ SumSeq(Alternated(h0)) = 0
           /\ SumSeq(h1) = 0 /\ SumSeq(alt) # 0
           /\ \E parity \in {0, 1} :
                  \E n \in degrees :
                      /\ n % 2 = parity
                      /\ p[n] \in {Unit * Unit, -(Unit * Unit)}
                      /\ \A m \in degrees :
                             (m % 2 = parity /\ m # n) => p[m] = 0

\* the round trip's result, Unit * Unit times the f64 value, is the signal
Reconstructs(result, original) ==
    /\ Len(result) = Len(original)
    /\ \A k \in 1..Len(original) : result[k] = Unit * Unit * original[k]

\* C1: for a coder built from a complementary analysis pair and a signal of
\* at least 2 x the filter length, synthesis_1d(analysis_1d(signal)) returns
\* the signal, sample by sample.
C1_PerfectReconstruction1D ==
    (/\ pc \in {"analysed", "synthesized", "panic"}
     /\ Complementary(coder.h_lowpass, coder.h_highpass)
     /\ Len(signal) >= 2 * MaxOf(FilterLen(coder.h_lowpass),
                                 FilterLen(coder.h_highpass)))
    => /\ pc # "panic"
       /\ pc = "synthesized" => Reconstructs(x_hat, signal)

\* C4: synthesis_1d applied to the subbands analysis_1d returned for a
\* signal of N >= 1 samples has exactly N samples.
C4_RoundTripLength ==
    (pc = "synthesized" /\ Len(signal) >= 1) => Len(x_hat) = Len(signal)

\* C7: no coder that holds a filter with an empty coefficient vector is
\* reachable: construction from such a filter fails.
C7_EmptyFilterRejected ==
    pc # "start" =>
        \A f \in {coder.h_lowpass, coder.h_highpass,
                  coder.f_lowpass, coder.f_highpass} :
            Len(f.coefficients) > 0

(***************************************************************************)
(* Claims on the 2-D coder (Spec).                                         *)
(***************************************************************************)
\* the states of a call of analysis followed by synthesis on its result
InRoundTrip == passes # <<>>

\* the three passes of analysis have run and none panicked
AnalysisReturned ==
    /\ InRoundTrip
    /\ \/ pc \in {"analysed", "y_0", "y_1", "synthesized"}
       \/ Len(passes) > 3

ReconstructsImage(result, original) ==
    /\ result.width = original.width
    /\ result.height = original.height
    /\ Len(result.data) = Len(original.data)
    /\ \A k \in 1..Len(original.data) :
           result.data[k] = Unit * Unit * Unit * Unit * original.data[k]

\* C2: for a rectangular image and a complementary filter pair,
\* synthesis(analysis(image)) returns an image of the same width and height
\* whose samples are the original's.
C2_PerfectReconstruction2D ==
    (InRoundTrip /\ Complementary(coder.h_lowpass, coder.h_highpass)) =>
        /\ pc # "panic"
        /\ pc = "synthesized" => ReconstructsImage(recon, image)

\* C3: synthesis undoes the column pass first: it column-synthesizes
\* (LL, LH) into intermediate-0 and (HL, HH) into intermediate-1, and only
\* then row-synthesizes the two intermediates.
C3_SynthesisMirrorsAnalysis ==
    InRoundTrip =>
        /\ Len(passes) >= 4 =>
               passes[4] = Pass("column_synthesis", "LL", "LH")
        /\ Len(passes) >= 5 =>
               passes[5] = Pass("column_synthesis", "HL", "HH")
        /\ Len(passes) >= 6 => passes[6].op = "row_synthesis"
        /\ pc = "y_0" =>
               y[1] = column_synthesis(coder, quad[1], quad[2],
                                       overflow_checks).image

\* C6: row_synthesis and column_synthesis return a result only for subband
\* images of equal width and equal height.
C6_ShapeMismatchFails ==
    pc \in {"row_synthesized", "column_synthesized"} =>
        /\ a_row[1].width = a_row[2].width
        /\ a_row[1].height = a_row[2].height

(***************************************************************************)
(* dwt/one_dimension.rs: the symmetric extensions.                         *)
(* The field index is a usize that the iterator moves through a cast to    *)
(* isize; the model holds it as that isize, so a negative index stands for *)
(* the usize 2^64 + index, which is past the end of every slice.           *)
(***************************************************************************)
\* WholeSampleSymmetricExtension::from / HalfSampleSymmetricExtension::from
DwtExtensionFrom(kind, s) ==
    [kind |-> kind,
     index |-> 0,
     period |-> IF kind = "WholeSample" THEN 2 * Len(s) - 2 ELSE Len(s) * 2,
     dir |-> 1]

\* next() of both extensions: [iter, item]
DwtExtensionNext(s, it) ==
    LET result == Get(s, it.index)
        turn == \/ it.index = 0 /\ it.dir = -1
                \/ it.index = Len(s) - 1 /\ it.dir = 1
        dir == IF turn THEN -it.dir ELSE it.dir
    IN  [iter |-> [it EXCEPT
                      !.dir = dir,
                      !.index = IF it.kind = "WholeSample"
                                THEN (IF turn THEN it.index ELSE it.index + it.dir)
                                ELSE it.index + dir],
         item |-> result]

(***************************************************************************)
(* SpecDwtExtension: one dwt extension of a signal of 1..MaxSignal samples *)
(* is iterated for MaxTerms calls of next().                               *)
(***************************************************************************)
InitDwtExtension ==
    /\ pc = "dwt_extension"
    /\ overflow_checks \in BOOLEAN
    /\ \E n \in 1..MaxSignal, kind \in {"WholeSample", "HalfSample"} :
           /\ d_input = Ramp(n)
           /\ d_ext = DwtExtensionFrom(kind, d_input)
    /\ d_emitted = <<>>
    /\ d_kernel = <<>> /\ d_output = <<>>
    /\ d_coder = [h_lowpass |-> <<>>, h_highpass |-> <<>>,
                  f_lowpass |-> <<>>, f_highpass |-> <<>>]
    /\ d_sub = <<>> /\ d_x_hat = <<>> /\ d_down = <<>> /\ d_up = <<>>
    /\ IdleFilter /\ IdleSignal /\ IdleCoder /\ IdleOneD /\ IdleTwoD
    /\ IdleApply /\ IdleImage

\* one call of next()
DwtExtensionStep ==
    /\ pc = "dwt_extension"
    /\ Len(d_emitted) < MaxTerms
    /\ \E r \in {DwtExtensionNext(d_input, d_ext)} :
           /\ d_ext' = r.iter
           /\ d_emitted' = Append(d_emitted, r.item)
    /\ UNCHANGED <<pc, overflow_checks, coder, d_input, d_kernel, d_output,
                   d_coder, d_sub, d_x_hat, d_down, d_up>>
    /\ UNCHANGED <<filterVars, signalVars, oneDVars, twoDVars, applyVars,
                   imageVars>>

NextDwtExtension == DwtExtensionStep

SpecDwtExtension == InitDwtExtension /\ [][NextDwtExtension]_vars

\* the position of the sample the claimed periodic sequence has at term
\* k >= 0: s0..sN-1,sN-1..s0 repeated (WholeSample), s0..sN-1,sN-2..s1
\* repeated (HalfSample; for N = 1 the constant sequence)
DwtClaimedPosition(kind, n, k) ==
    IF kind = "WholeSample"
    THEN LET m == k % (2 * n) IN IF m < n THEN m ELSE 2 * n - 1 - m
    ELSE IF n = 1 THEN 0
    ELSE LET m == k % (2 * n - 2) IN IF m < n THEN m ELSE 2 * n - 2 - m

\* C11: for a signal of N >= 1 samples next() of both dwt extensions never
\* returns None, and term k is the sample of the periodic sequence that
\* starts at the left boundary.
C11_DwtExtensionPeriodic ==
    pc = "dwt_extension" =>
        \A k \in 1..Len(d_emitted) :
            /\ d_emitted[k] # None
            /\ d_emitted[k] =
                   Some(DwtClaimedPosition(d_ext.kind, Len(d_input), k - 1))

\* the same for the signals of two or more samples, the tests' among them
DwtPeriodicFromTwoSamples ==
    (pc = "dwt_extension" /\ Len(d_input) >= 2) =>
        \A k \in 1..Len(d_emitted) :
            d_emitted[k] =
                Some(DwtClaimedPosition(d_ext.kind, Len(d_input), k - 1))

(***************************************************************************)
(* dwt/one_dimension.rs: upsample and downsample.                          *)
(***************************************************************************)
\* the loop of upsample: result[2 * index] = *f for every sample
RECURSIVE dwt_upsample_loop(_, _, _)
dwt_upsample_loop(input, index, result) ==
    IF index >= Len(input) THEN result
    ELSE dwt_upsample_loop(input, index + 1,
                           [result EXCEPT ![2 * index + 1] = input[index + 1]])

\* TwoChannelSubbandCoder::upsample
dwt_upsample(input) ==
    dwt_upsample_loop(input, 0, [k \in 1..(Len(input) * 2) |-> 0])

\* the filter of downsample over the samples from index i on
RECURSIVE dwt_downsample_from(_, _, _)
dwt_downsample_from(input, i, keep) ==
    IF i >= Len(input) THEN <<>>
    ELSE (IF i % 2 = keep THEN <<input[i + 1]>> ELSE <<>>)
         \o dwt_downsample_from(input, i + 1, keep)

\* downsample keeping the samples at the odd indices
dwt_downsample_odd(input) == dwt_downsample_from(input, 0, 1)

\* TwoChannelSubbandCoder::downsample
dwt_downsample(input) == dwt_downsample_from(input, 0, 0)

(***************************************************************************)
(* SpecSampling: downsample and upsample of swt.rs and of one_dimension.rs *)
(* are called on the same slice of 0..MaxN samples.                        *)
(***************************************************************************)
\* the slice of n samples whose sample i (0-based) is i
Count(n) == [k \in 1..n |-> k - 1]

SamplingInputs ==
    UNION {{Count(n), Ramp(n)} \cup SeqsOf({0, 1}, n, n) : n \in 0..MaxN}

InitSampling ==
    /\ pc = "sampling"
    /\ overflow_checks = TRUE
    /\ d_input \in SamplingInputs
    /\ d_down = <<>> /\ d_up = <<>>
    /\ d_ext = [kind |-> "WholeSample", index |-> 0, dir |-> 1]
    /\ d_emitted = <<>> /\ d_kernel = <<>> /\ d_output = <<>>
    /\ d_coder = [h_lowpass |-> <<>>, h_highpass |-> <<>>,
                  f_lowpass |-> <<>>, f_highpass |-> <<>>]
    /\ d_sub = <<>> /\ d_x_hat = <<>>
    /\ IdleFilter /\ IdleSignal /\ IdleCoder /\ IdleOneD /\ IdleTwoD
    /\ IdleApply /\ IdleImage

Downsample ==
    /\ pc = "sampling"
    /\ d_down = <<>>
    /\ d_down' = <<downsample(d_input), dwt_downsample(d_input)>>
    /\ UNCHANGED <<pc, overflow_checks, coder, d_input, d_ext, d_emitted,
                   d_kernel, d_output, d_coder, d_sub, d_x_hat, d_up>>
    /\ UNCHANGED <<filterVars, signalVars, oneDVars, twoDVars, applyVars,
                   imageVars>>

Upsample ==
    /\ pc = "sampling"
    /\ d_up = <<>>
    /\ d_up' = <<upsample(d_input), dwt_upsample(d_input)>>
    /\ UNCHANGED <<pc, overflow_checks, coder, d_input, d_ext, d_emitted,
                   d_kernel, d_output, d_coder, d_sub, d_x_hat, d_down>>
    /\ UNCHANGED <<filterVars, signalVars, oneDVars, twoDVars, applyVars,
                   imageVars>>

NextSampling == Downsample \/ Upsample

SpecSampling == InitSampling /\ [][NextSampling]_vars

\* C12: downsample(x) is the ceil(N/2) samples of x at the even indices in
\* order, upsample(x) has 2N samples, x[i] at index 2i and 0 at every odd
\* index, and the swt and dwt implementations agree.
C12_DownsampleUpsample ==
    LET N == Len(d_input)
    IN  /\ d_down # <<>> =>
               /\ d_down[1] = d_down[2]
               /\ \A r \in 1..2 :
                      /\ 2 * Len(d_down[r]) \in {N, N + 1}
                      /\ \A i \in 0..(N - 1) :
                             i % 2 = 0 => d_down[r][(i \div 2) + 1] = d_input[i + 1]
        /\ d_up # <<>> =>
               /\ d_up[1] = d_up[2]
               /\ \A r \in 1..2 :
                      /\ Len(d_up[r]) = 2 * N
                      /\ \A i \in 0..(N - 1) :
                             /\ d_up[r][2 * i + 1] = d_input[i + 1]
                             /\ d_up[r][2 * i + 2] = 0

C12_Witness ==
    /\ d_input = <<0, 1, 2, 3, 4>>
    /\ d_down = <<<<0, 2, 4>>, <<0, 2, 4>>>>
    /\ d_up = <<<<0, 0, 1, 0, 2, 0, 3, 0, 4, 0>>,
                <<0, 0, 1, 0, 2, 0, 3, 0, 4, 0>>>>

(***************************************************************************)
(* dwt/one_dimension.rs: LinearTimeInvariantFilter.                        *)
(* A filter is its coefficient vector.                                     *)
(***************************************************************************)
\* the loop over j of apply: output[i + j] += input[i] * coefficients[j]
RECURSIVE lti_apply_j(_, _, _, _, _)
lti_apply_j(coefficients, input, i, j, output) ==
    IF j >= Len(coefficients) THEN output
    ELSE lti_apply_j(coefficients, input, i, j + 1,
                     [output EXCEPT
                         ![i + j + 1] = @ + input[i + 1] * coefficients[j + 1]])

\* the loop over i of apply
RECURSIVE lti_apply_i(_, _, _, _)
lti_apply_i(coefficients, input, i, output) ==
    IF i >= Len(input) THEN output
    ELSE lti_apply_i(coefficients, input, i + 1,
                     lti_apply_j(coefficients, input, i, 0, output))

\* apply with an output of signal_len samples
lti_apply_same_size(coefficients, input, checks) ==
    IF Len(input) = 0 /\ Len(coefficients) = 0
    THEN [out |-> <<>>, panic |-> TRUE]
    ELSE [out |-> Only({[k \in 1..Len(input) |->
                            IF k <= Len(full) THEN full[k] ELSE 0] :
                           full \in {lti_apply_i(coefficients, input, 0,
                                        [k \in 1..(Len(input) + Len(coefficients) - 1) |-> 0])}}),
          panic |-> FALSE]

\* LinearTimeInvariantFilter::apply: [out, panic].  With no sample and no
\* coefficient signal_len + kernel_len - 1 overflows: a panic with overflow
\* checks, a vector of usize::MAX samples (capacity overflow) without.
lti_apply(coefficients, input, checks) ==
    IF Len(input) = 0 /\ Len(coefficients) = 0
    THEN [out |-> <<>>, panic |-> TRUE]
    ELSE [out |-> lti_apply_i(coefficients, input, 0,
                      [k \in 1..(Len(input) + Len(coefficients) - 1) |-> 0]),
          panic |-> FALSE]

(***************************************************************************)
(* SpecConvolution: LinearTimeInvariantFilter::new(kernel).apply(&input).   *)
(***************************************************************************)
Kernels == SeqsOf({1, 2}, 0, MaxKernel)

InitConvolution ==
    /\ pc = "convolution"
    /\ overflow_checks \in BOOLEAN
    /\ d_input \in Signals \cup {<<>>}
    /\ d_kernel \in Kernels
    /\ d_output = <<>>
    /\ d_ext = [kind |-> "WholeSample", index |-> 0, dir |-> 1]
    /\ d_emitted = <<>>
    /\ d_coder = [h_lowpass |-> <<>>, h_highpass |-> <<>>,
                  f_lowpass |-> <<>>, f_highpass |-> <<>>]
    /\ d_sub = <<>> /\ d_x_hat = <<>> /\ d_down = <<>> /\ d_up = <<>>
    /\ IdleFilter /\ IdleSignal /\ IdleCoder /\ IdleOneD /\ IdleTwoD
    /\ IdleApply /\ IdleImage

Convolve1d ==
    /\ pc = "convolution"
    /\ \E r \in {lti_apply(d_kernel, d_input, overflow_checks)} :
           /\ d_output' = r.out
           /\ pc' = IF r.panic THEN "panic" ELSE "convolved"
    /\ UNCHANGED <<overflow_checks, coder, d_input, d_ext, d_emitted, d_kernel,
                   d_coder, d_sub, d_x_hat, d_down, d_up>>
    /\ UNCHANGED <<filterVars, signalVars, oneDVars, twoDVars, applyVars,
                   imageVars>>

NextConvolution == Convolve1d

SpecConvolution == InitConvolution /\ [][NextConvolution]_vars

\* C13: for N >= 1 samples and K >= 1 coefficients apply returns N + K - 1
\* samples, and output[n] is the sum of input[i] * coefficients[j] over the
\* pairs with i + j = n.
C13_FullConvolution ==
    (pc \in {"convolved", "panic"} /\ Len(d_input) >= 1 /\ Len(d_kernel) >= 1) =>
        /\ pc = "convolved"
        /\ Len(d_output) = Len(d_input) + Len(d_kernel) - 1
        /\ \A n \in 0..(Len(d_input) + Len(d_kernel) - 2) :
               d_output[n + 1] = ProductCoefficient(d_input, d_kernel, n, 0)

\* test_convolution, in units of 0.2
C13_Witness ==
    /\ pc = "convolved"
    /\ d_input = <<1, 2, 3, 4, 5>>
    /\ d_kernel = <<1, 2, 1>>
    /\ d_output = <<1, 4, 8, 12, 16, 14, 5>>

(***************************************************************************)
(* swt.rs: the FloatImage operations outside the coder.                    *)
(***************************************************************************)
\* f64::MAX; f64::MIN is its negation.  Only its being larger than every
\* sample of the model matters.
F64_MAX == 1000000000

\* f64::min and f64::max
F64Min(a, b) == IF b < a THEN b ELSE a
F64Max(a, b) == IF b > a THEN b ELSE a

\* the scan of find_min_max from sample k on: <<min, max>>
RECURSIVE find_min_max_from(_, _, _, _)
find_min_max_from(data, k, min, max) ==
    IF k > Len(data) THEN <<min, max>>
    ELSE Only({find_min_max_from(data, k + 1, lo, hi) :
                  lo \in {F64Min(min, data[k])}, hi \in {F64Max(max, data[k])}})

\* FloatImage::find_min_max
find_min_max(img) == find_min_max_from(img.data, 1, F64_MAX, -F64_MAX)

\* FloatImage::find_and_set_min_max
find_and_set_min_max(img) ==
    Only({[img EXCEPT !.min_value = Rat(found[1]), !.max_value = Rat(found[2])] :
             found \in {find_min_max(img)}})

\* FloatImage::normalize for a rescale 1 / rescale_inverse, on which the
\* division is exact: *f = (*f - mean) / rescale
normalize(img, mean, rescale_inverse) ==
    [img EXCEPT !.data = [k \in 1..Len(img.data) |->
                             (img.data[k] - mean) * rescale_inverse]]

\* one call of Columns::next on the iterator at column c: [col, item, panic]
ColumnsNext(img, c) ==
    IF c >= img.width THEN [col |-> c, item |-> None, panic |-> FALSE]
    ELSE IF ColumnPanics(img, c) THEN [col |-> c, item |-> None, panic |-> TRUE]
    ELSE [col |-> c + 1,
          item |-> Some([r \in 1..CeilDiv(Len(img.data), img.width) |->
                            img.data[(r - 1) * img.width + c + 1]]),
          panic |-> FALSE]

\* auto_normalize divides by a mean-dependent rescale; its results are held
\* as exact fractions [n, d] with d > 0, or d = 0 for the results of a
\* division by zero: [1, 0] and [-1, 0] the infinities, [0, 0] NaN.
RECURSIVE Gcd(_, _)
Gcd(a, b) == IF b = 0 THEN a ELSE Only({Gcd(b, r) : r \in {a % b}})

Abs(n) == IF n < 0 THEN -n ELSE n

Sign(n) == IF n < 0 THEN -1 ELSE IF n > 0 THEN 1 ELSE 0

Frac(n, d) ==
    IF d = 0 THEN [n |-> Sign(n), d |-> 0]
    ELSE Only({[n |-> (Sign(d) * n) \div g, d |-> Abs(d) \div g] :
                  g \in {Gcd(Abs(n), Abs(d))}})

FracSub(a, b) == Frac(a.n * b.d - b.n * a.d, a.d * b.d)

FracDiv(a, b) == Frac(a.n * b.d, a.d * b.n)

\* f64::max of two fractions
FracMax(a, b) == IF b.n * a.d > a.n * b.d THEN b ELSE a

\* the divisor of get_mean_and_rescale
RescaleDivisor == 128

\* FloatImage::get_mean_and_rescale on an image with samples: <<mean, rescale>>
get_mean_and_rescale(img) ==
    Only({<<mean, FracDiv(FracMax(FracSub(img.max_value, mean),
                                  FracSub(mean, img.min_value)),
                          Rat(RescaleDivisor))>> :
             mean \in {Frac(SumSeq(img.data), Len(img.data))}})

\* FloatImage::auto_normalize: the data afterwards.  Without samples the
\* mean is NaN and normalize has nothing to divide.
auto_normalize(img) ==
    IF Len(img.data) = 0 THEN <<>>
    ELSE Only({[k \in 1..Len(img.data) |->
                   FracDiv(FracSub(Rat(img.data[k]), mr[1]), mr[2])] :
                  mr \in {get_mean_and_rescale(img)}})

\* Analysis::analysis as one call: [panic, images], images = <<LL, LH, HL, HH>>
analysis(c, img, checks) ==
    Only({IF a_row_.panic THEN [panic |-> TRUE, images |-> <<>>]
          ELSE Only({IF a_0_.panic THEN [panic |-> TRUE, images |-> <<>>]
                     ELSE Only({IF a_1_.panic THEN [panic |-> TRUE, images |-> <<>>]
                                ELSE [panic |-> FALSE,
                                      images |-> <<a_0_.lowpass, a_0_.highpass,
                                                   a_1_.lowpass, a_1_.highpass>>] :
                                   a_1_ \in {column_analysis(c, a_row_.highpass, checks)}}) :
                        a_0_ \in {column_analysis(c, a_row_.lowpass, checks)}}) :
             a_row_ \in {row_analysis(c, img, checks)}})

\* Synthesis::synthesis as one call: [panic, image]
synthesis(c, a, checks) ==
    Only({IF y_0_.panic THEN PanicImage
          ELSE Only({IF y_1_.panic THEN PanicImage
                     ELSE column_synthesis(c, y_0_.image, y_1_.image, checks) :
                        y_1_ \in {row_synthesis(c, a[3], a[4], checks)}}) :
             y_0_ \in {row_synthesis(c, a[1], a[2], checks)}})

(***************************************************************************)
(* SpecImage: a FloatImage is built with From and then used: rotate,       *)
(* normalize, auto_normalize, find_and_set_min_max, the analysis and       *)
(* synthesis calls of a coder, and the column iterator.  A panic ends the  *)
(* run.                                                                    *)
(***************************************************************************)
\* test_columns: the rows handed to FloatImage::from
TestColumnsRows ==
    <<<<1, 2, 3, 4, 5>>, <<6, 7, 8, 9, 0>>, <<1, 2, 3, 4, 5>>,
      <<6, 7, 8, 9, 0>>, <<1, 2, 3, 4, 5>>>>

\* lists of rows of equal length, the empty list and lists of empty rows
\* included
RectangularRows == {RampRows(w, h) : w \in 0..MaxRows, h \in 0..MaxRows}

\* lists of two rows, of equal length or not
TwoRows == {<<Ramp(w), Ramp(v)>> : w \in 1..MaxRows, v \in 0..MaxRows}

ImageRows == RectangularRows \cup TwoRows \cup {TestColumnsRows}

\* one coder per class, its filters of MaxCoderLen stored coefficients
ImageCoders ==
    {new(MkFilter(c, Vector(2, MaxCoderLen)), MkFilter(c, Vector(1, MaxCoderLen))) :
        c \in Classes}

InitImage ==
    /\ pc = "from"
    /\ from_value \in ImageRows
    /\ coder \in ImageCoders
    /\ overflow_checks = TRUE
    /\ image = NoImage /\ prev_image = NoImage
    /\ a_row = <<>> /\ quad = <<>> /\ y = <<>>
    /\ recon = NoImage /\ passes = <<>>
    /\ columns_col = 0 /\ cols_out = <<>>
    /\ normalized = <<>> /\ ops = <<>>
    /\ IdleFilter /\ IdleSignal /\ IdleOneD
    /\ IdleApply /\ IdleDwt

\* FloatImage::from(value)
FromRows ==
    /\ pc = "from"
    /\ pc' = IF FromPanics(from_value) THEN "panic" ELSE "image"
    /\ image' = IF FromPanics(from_value) THEN image ELSE From(from_value)
    /\ UNCHANGED <<from_value, prev_image, columns_col, cols_out, normalized, ops>>
    /\ UNCHANGED <<a_row, quad, y, recon, passes, coder, overflow_checks>>
    /\ UNCHANGED <<filterVars, signalVars, oneDVars, applyVars, dwtVars>>

\* what every operation on image leaves alone
ImageOpFrame ==
    /\ UNCHANGED <<from_value, columns_col, cols_out, y, recon, passes>>
    /\ UNCHANGED <<coder, overflow_checks>>
    /\ UNCHANGED <<filterVars, signalVars, oneDVars, applyVars, dwtVars>>

\* image.rotate()
Rotate ==
    /\ pc = "image" /\ Len(ops) < MaxOps
    /\ pc' = IF ColumnsPanics(image) THEN "panic" ELSE pc
    /\ image' = IF ColumnsPanics(image) THEN image ELSE rotate(image)
    /\ prev_image' = image
    /\ ops' = Append(ops, "rotate")
    /\ UNCHANGED <<a_row, quad, normalized>>
    /\ ImageOpFrame

\* image.find_and_set_min_max()
FindAndSetMinMax ==
    /\ pc = "image" /\ Len(ops) < MaxOps
    /\ image' = find_and_set_min_max(image)
    /\ prev_image' = image
    /\ ops' = Append(ops, "find_and_set_min_max")
    /\ UNCHANGED <<pc, a_row, quad, normalized>>
    /\ ImageOpFrame

\* image.normalize(mean, rescale), rescale = 1 / rescale_inverse
Normalize ==
    /\ pc = "image" /\ Len(ops) < MaxOps
    /\ \E mean \in {1}, rescale_inverse \in {1, 2} :
           image' = normalize(image, mean, rescale_inverse)
    /\ prev_image' = image
    /\ ops' = Append(ops, "normalize")
    /\ UNCHANGED <<pc, a_row, quad, normalized>>
    /\ ImageOpFrame

\* image.auto_normalize(); the data it leaves is held in normalized
AutoNormalize ==
    /\ pc = "image" /\ Len(ops) < MaxOps
    /\ normalized' = auto_normalize(image)
    /\ pc' = "auto_normalized"
    /\ prev_image' = image
    /\ ops' = Append(ops, "auto_normalize")
    /\ UNCHANGED <<image, a_row, quad>>
    /\ ImageOpFrame

\* coder.row_analysis(&image); the caller goes on with either subband
ImageRowAnalysis ==
    /\ pc = "image" /\ Len(ops) < MaxOps
    /\ \E r \in {row_analysis(coder, image, overflow_checks)} :
           /\ pc' = IF r.panic THEN "panic" ELSE pc
           /\ a_row' = IF r.panic THEN a_row ELSE <<r.lowpass, r.highpass>>
           /\ image' \in IF r.panic THEN {image} ELSE {r.lowpass, r.highpass}
    /\ prev_image' = image
    /\ ops' = Append(ops, "row_analysis")
    /\ UNCHANGED <<quad, normalized>>
    /\ ImageOpFrame

\* coder.column_analysis(&image); the caller goes on with either subband
ImageColumnAnalysis ==
    /\ pc = "image" /\ Len(ops) < MaxOps
    /\ \E r \in {column_analysis(coder, image, overflow_checks)} :
           /\ pc' = IF r.panic THEN "panic" ELSE pc
           /\ a_row' = IF r.panic THEN a_row ELSE <<r.lowpass, r.highpass>>
           /\ image' \in IF r.panic THEN {image} ELSE {r.lowpass, r.highpass}
    /\ prev_image' = image
    /\ ops' = Append(ops, "column_analysis")
    /\ UNCHANGED <<quad, normalized>>
    /\ ImageOpFrame

\* coder.analysis(&image); the caller goes on with any of the four subbands
ImageAnalysis ==
    /\ pc = "image" /\ Len(ops) < MaxOps
    /\ \E r \in {analysis(coder, image, overflow_checks)} :
           /\ pc' = IF r.panic THEN "panic" ELSE pc
           /\ quad' = IF r.panic THEN quad ELSE r.images
           /\ image' \in IF r.panic THEN {image}
                         ELSE {r.images[k] : k \in 1..4}
    /\ prev_image' = image
    /\ ops' = Append(ops, "analysis")
    /\ UNCHANGED <<a_row, normalized>>
    /\ ImageOpFrame

\* coder.row_synthesis(&a.0, &a.1) on the pair an analysis call returned
ImageRowSynthesis ==
    /\ pc = "image" /\ Len(ops) < MaxOps
    /\ a_row # <<>>
    /\ \E r \in {row_synthesis(coder, a_row[1], a_row[2], overflow_checks)} :
           /\ pc' = IF r.panic THEN "panic" ELSE pc
           /\ image' = IF r.panic THEN image ELSE r.image
    /\ prev_image' = image
    /\ ops' = Append(ops, "row_synthesis")
    /\ UNCHANGED <<a_row, quad, normalized>>
    /\ ImageOpFrame

\* coder.column_synthesis(&a.0, &a.1) on the pair an analysis call returned
ImageColumnSynthesis ==
    /\ pc = "image" /\ Len(ops) < MaxOps
    /\ a_row # <<>>
    /\ \E r \in {column_synthesis(coder, a_row[1], a_row[2], overflow_checks)} :
           /\ pc' = IF r.panic THEN "panic" ELSE pc
           /\ image' = IF r.panic THEN image ELSE r.image
    /\ prev_image' = image
    /\ ops' = Append(ops, "column_synthesis")
    /\ UNCHANGED <<a_row, quad, normalized>>
    /\ ImageOpFrame

\* coder.synthesis(&a) on the four subbands analysis returned
ImageSynthesis ==
    /\ pc = "image" /\ Len(ops) < MaxOps
    /\ quad # <<>>
    /\ \E r \in {synthesis(coder, quad, overflow_checks)} :
           /\ pc' = IF r.panic THEN "panic" ELSE pc
           /\ image' = IF r.panic THEN image ELSE r.image
    /\ prev_image' = image
    /\ ops' = Append(ops, "synthesis")
    /\ UNCHANGED <<a_row, quad, normalized>>
    /\ ImageOpFrame

\* let mut cols = image.columns()
ImageColumns ==
    /\ pc = "image"
    /\ pc' = "columns"
    /\ columns_col' = 0
    /\ cols_out' = <<>>
    /\ UNCHANGED <<from_value, prev_image, normalized, ops>>
    /\ UNCHANGED <<image, a_row, quad, y, recon, passes, coder, overflow_checks>>
    /\ UNCHANGED <<filterVars, signalVars, oneDVars, applyVars, dwtVars>>

\* cols.next(), until it has returned None: a call that returns None leaves
\* col as it was, so every later call returns None too
ColumnsStep ==
    /\ pc = "columns"
    /\ ~(cols_out # <<>> /\ cols_out[Len(cols_out)] = None)
    /\ \E r \in {ColumnsNext(image, columns_col)} :
           /\ pc' = IF r.panic THEN "panic" ELSE pc
           /\ columns_col' = r.col
           /\ cols_out' = IF r.panic THEN cols_out ELSE Append(cols_out, r.item)
    /\ UNCHANGED <<from_value, prev_image, normalized, ops>>
    /\ UNCHANGED <<image, a_row, quad, y, recon, passes, coder, overflow_checks>>
    /\ UNCHANGED <<filterVars, signalVars, oneDVars, applyVars, dwtVars>>

NextImage ==
    \/ FromRows
    \/ Rotate \/ FindAndSetMinMax \/ Normalize \/ AutoNormalize
    \/ ImageRowAnalysis \/ ImageColumnAnalysis \/ ImageAnalysis
    \/ ImageRowSynthesis \/ ImageColumnSynthesis \/ ImageSynthesis
    \/ ImageColumns \/ ColumnsStep

SpecImage == InitImage /\ [][NextImage]_vars

(***************************************************************************)
(* Claims about FloatImage, checked under SpecImage.                       *)
(***************************************************************************)
LastOp == IF ops = <<>> THEN "" ELSE ops[Len(ops)]

\* v is a sample of data and no sample of data is below it
IsLeastSample(v, data) ==
    /\ \E k \in 1..Len(data) : Rat(data[k]) = v
    /\ \A k \in 1..Len(data) : v.n <= data[k] * v.d

\* v is a sample of data and no sample of data is above it
IsGreatestSample(v, data) ==
    /\ \E k \in 1..Len(data) : Rat(data[k]) = v
    /\ \A k \in 1..Len(data) : v.n >= data[k] * v.d

AfterFindAndSetMinMax == pc = "image" /\ LastOp = "find_and_set_min_max"

\* C14: after find_and_set_min_max, min_value is the least sample of data
\* and max_value the greatest, for every image, one with a single sample or
\* with no samples included; data, width and height are unchanged.
C14_MinMaxExact ==
    AfterFindAndSetMinMax =>
        /\ IsLeastSample(image.min_value, image.data)
        /\ IsGreatestSample(image.max_value, image.data)
        /\ image.data = prev_image.data
        /\ image.width = prev_image.width
        /\ image.height = prev_image.height

\* what the code does establish: the same, on an image that has samples;
\* and data, width and height are unchanged on every image
MinMaxExactWithSamples ==
    AfterFindAndSetMinMax =>
        /\ image.data # <<>> =>
               /\ IsLeastSample(image.min_value, image.data)
               /\ IsGreatestSample(image.max_value, image.data)
        /\ image.data = <<>> =>
               /\ image.min_value = Rat(F64_MAX)
               /\ image.max_value = Rat(-F64_MAX)
        /\ image.data = prev_image.data
        /\ image.width = prev_image.width
        /\ image.height = prev_image.height

MinMaxSingleSample ==
    AfterFindAndSetMinMax /\ Len(image.data) = 1 /\ image.min_value = Rat(1)

HasShape(img) == Len(img.data) = img.width * img.height

\* C17: data.len() == width * height for every FloatImage the program
\* holds: the one From built from a non-empty list of rows, and the ones
\* the operations on it leave or return.
C17_DataLenIsWidthTimesHeight ==
    /\ pc \in {"image", "columns", "auto_normalized"} => HasShape(image)
    /\ pc = "auto_normalized" => Len(normalized) = image.width * image.height
    /\ \A k \in 1..Len(a_row) : HasShape(a_row[k])
    /\ \A k \in 1..Len(quad) : HasShape(quad[k])

\* what the code does establish: an operation that returns leaves the
\* invariant as it found it, and From establishes it for rows of one length
ShapePreserved ==
    /\ (pc \in {"image", "columns"} /\ ops # <<>> /\ HasShape(prev_image)) =>
           HasShape(image)
    /\ pc = "auto_normalized" => Len(normalized) = Len(image.data)
    /\ (pc \in {"image", "columns"}
           /\ \A r \in 1..Len(from_value) : Len(from_value[r]) = Len(from_value[1])) =>
           C17_DataLenIsWidthTimesHeight

\* column c (0-based) of an image of width W and height H
ColumnOf(img, c) == [r \in 1..img.height |-> img.data[(r - 1) * img.width + c + 1]]

\* after is the transpose of before, min_value and max_value kept
IsTranspose(after, before) ==
    /\ after.width = before.height
    /\ after.height = before.width
    /\ Len(after.data) = Len(before.data)
    /\ \A r \in 0..(before.height - 1) : \A c \in 0..(before.width - 1) :
           after.data[c * before.height + r + 1] = before.data[r * before.width + c + 1]
    /\ after.min_value = before.min_value
    /\ after.max_value = before.max_value

\* a call of Columns::next on an image with data.len() == W * H returns the
\* next of the W columns, and None after them
ColumnsYieldsColumns ==
    (pc = "columns" /\ HasShape(image)) =>
        /\ pc' = "columns"
        /\ cols_out' = Append(cols_out,
                              IF Len(cols_out) < image.width
                              THEN Some(ColumnOf(image, Len(cols_out)))
                              ELSE None)

\* rotate on an image with data.len() == W * H returns, and leaves the
\* transpose
RotateTransposes ==
    (pc = "image" /\ HasShape(image) /\ ops' = Append(ops, "rotate")) =>
        /\ pc' = "image"
        /\ IsTranspose(image', image)

\* C18: on an image with data.len() == W * H the column iterator yields
\* exactly W columns, the c-th being [data[r * W + c] : r = 0..H-1], then
\* None; rotate leaves the transpose with min_value and max_value unchanged.
C18_ColumnsAndRotate == [][ColumnsYieldsColumns /\ RotateTransposes]_vars

\* an image of two columns and three rows has been rotated and the columns
\* of the result read until None
C18_Witness ==
    /\ pc = "columns" /\ ops = <<"rotate">>
    /\ prev_image.width = 2 /\ prev_image.height = 3
    /\ image.width = 3 /\ image.height = 2
    /\ Len(cols_out) = 4 /\ cols_out[3] # None /\ cols_out[4] = None

(***************************************************************************)
(* dwt/one_dimension.rs: TwoChannelSubbandCoder                            *)
(***************************************************************************)
\* LinearTimeInvariantFilter::invert_highpass: odd positions kept, even
\* positions negated
dwt_invert_highpass(coefficients) ==
    [k \in 1..Len(coefficients) |->
        IF (k - 1) % 2 = 1 THEN coefficients[k] ELSE -coefficients[k]]

\* LinearTimeInvariantFilter::invert_lowpass: even positions kept, odd
\* positions negated
dwt_invert_lowpass(coefficients) ==
    [k \in 1..Len(coefficients) |->
        IF (k - 1) % 2 = 0 THEN coefficients[k] ELSE -coefficients[k]]

\* TwoChannelSubbandCoder::new
dwt_new(h_lowpass, h_highpass) ==
    [h_lowpass |-> h_lowpass,
     h_highpass |-> h_highpass,
     f_lowpass |-> dwt_invert_highpass(h_highpass),
     f_highpass |-> dwt_invert_lowpass(h_lowpass)]

\* TwoChannelSubbandCoder::analysis: [a_0, a_1, panic]
dwt_analysis(c, input, checks) ==
    Only({IF y_0_.panic \/ y_1_.panic
          THEN [a_0 |-> <<>>, a_1 |-> <<>>, panic |-> TRUE]
          ELSE [a_0 |-> dwt_downsample(y_0_.out),
                a_1 |-> dwt_downsample(y_1_.out),
                panic |-> FALSE] :
             y_0_ \in {lti_apply(c.h_lowpass, input, checks)},
             y_1_ \in {lti_apply(c.h_highpass, input, checks)}})

\* synthesis: x_0[..x_0.len() - end_skip].iter().zip(x_1).skip(start_skip)
\* .map(|(x, y)| *x + y).collect().  The slice panics when end_skip exceeds
\* x_0.len(), in both builds; start_skip of an empty f_lowpass panics in a
\* debug build and skips every pair in a release build.
dwt_zip_skip(x_0, x_1, start_skip, end_skip, checks) ==
    IF Len(x_0) < end_skip \/ (start_skip < 0 /\ checks)
    THEN [out |-> <<>>, panic |-> TRUE]
    ELSE IF start_skip < 0 THEN [out |-> <<>>, panic |-> FALSE]
    ELSE [out |-> [k \in 1..(Min(Len(x_0) - end_skip, Len(x_1)) - start_skip) |->
                      x_0[start_skip + k] + x_1[start_skip + k]],
          panic |-> FALSE]

\* TwoChannelSubbandCoder::synthesis: [out, panic]
dwt_synthesis(c, a_0_, a_1_, checks) ==
    Only({IF x_0_.panic \/ x_1_.panic THEN [out |-> <<>>, panic |-> TRUE]
          ELSE dwt_zip_skip(x_0_.out, x_1_.out, Len(c.f_lowpass) - 1,
                            Len(c.f_highpass), checks) :
             x_0_ \in {lti_apply(c.f_lowpass, dwt_upsample(a_0_), checks)},
             x_1_ \in {lti_apply(c.f_highpass, dwt_upsample(a_1_), checks)}})

(***************************************************************************)
(* SpecDwtCoder: a coder is built from two analysis filters of K           *)
(* coefficients each; analysis is called on a signal and synthesis on the  *)
(* two subbands analysis returned.                                         *)
(***************************************************************************)
DwtCoders ==
    UNION {{dwt_new(h_lowpass, h_highpass) :
                h_lowpass \in SeqsOf({1, 2}, k, k),
                h_highpass \in SeqsOf({1, 2}, k, k)} : k \in 1..MaxKernel}

InitDwtCoder ==
    /\ pc = "dwt_coder"
    /\ overflow_checks \in BOOLEAN
    /\ d_input \in Signals
    /\ d_coder \in DwtCoders
    /\ d_sub = <<>> /\ d_x_hat = <<>>
    /\ d_kernel = <<>> /\ d_output = <<>>
    /\ d_ext = [kind |-> "WholeSample", index |-> 0, dir |-> 1]
    /\ d_emitted = <<>> /\ d_down = <<>> /\ d_up = <<>>
    /\ IdleFilter /\ IdleSignal /\ IdleCoder /\ IdleOneD /\ IdleTwoD
    /\ IdleApply /\ IdleImage

\* let (low_pass_subband, high_pass_subband) = encoder.analysis(&signal)
DwtAnalysis ==
    /\ pc = "dwt_coder"
    /\ \E r \in {dwt_analysis(d_coder, d_input, overflow_checks)} :
           /\ d_sub' = IF r.panic THEN d_sub ELSE <<r.a_0, r.a_1>>
           /\ pc' = IF r.panic THEN "panic" ELSE "dwt_analysed"
    /\ UNCHANGED <<overflow_checks, coder, d_input, d_ext, d_emitted, d_kernel,
                   d_output, d_coder, d_x_hat, d_down, d_up>>
    /\ UNCHANGED <<filterVars, signalVars, oneDVars, twoDVars, applyVars,
                   imageVars>>

\* encoder.synthesis(&low_pass_subband, &high_pass_subband)
DwtSynthesis ==
    /\ pc = "dwt_analysed"
    /\ \E r \in {dwt_synthesis(d_coder, d_sub[1], d_sub[2], overflow_checks)} :
           /\ d_x_hat' = r.out
           /\ pc' = IF r.panic THEN "panic" ELSE "dwt_synthesized"
    /\ UNCHANGED <<overflow_checks, coder, d_input, d_ext, d_emitted, d_kernel,
                   d_output, d_coder, d_sub, d_down, d_up>>
    /\ UNCHANGED <<filterVars, signalVars, oneDVars, twoDVars, applyVars,
                   imageVars>>

NextDwtCoder == DwtAnalysis \/ DwtSynthesis

SpecDwtCoder == InitDwtCoder /\ [][NextDwtCoder]_vars

\* C15: synthesis applied to the two subbands analysis returned for a signal
\* of N >= 1 samples has exactly N samples, for two analysis filters of K
\* coefficients each.
C15_DwtRoundTripLength ==
    pc = "dwt_synthesized" => Len(d_x_hat) = Len(d_input)

\* what the code does establish: both calls return; the result has N samples
\* when N + K is even, as in the test (12 + 6), and N - 1 when N + K is odd
DwtRoundTripLengthByParity ==
    /\ pc # "panic"
    /\ pc = "dwt_synthesized" =>
           Len(d_x_hat) = IF (Len(d_input) + Len(d_coder.h_lowpass)) % 2 = 0
                          THEN Len(d_input) ELSE Len(d_input) - 1

(***************************************************************************)
(* SpecApply: Filter::apply is called on a signal.                         *)
(***************************************************************************)
InitApply ==
    /\ pc = "apply"
    /\ overflow_checks \in BOOLEAN
    /\ filter \in Filters(1, MaxLen)
    /\ orig = filter
    /\ inverted = 0
    /\ fiter = FilterIntoIter(filter)
    /\ fout = <<>>
    /\ fnone = 0
    /\ signal \in Signals
    /\ a_0 = <<>> /\ a_1 = <<>> /\ x_hat = <<>>
    /\ applied = NotApplied
    /\ IdleSignal /\ IdleCoder /\ IdleTwoD
    /\ IdleDwt /\ IdleImage

\* filter.apply(&signal)
ApplyFilter ==
    /\ pc = "apply"
    /\ \E r \in {Apply(filter, signal, overflow_checks)} :
           /\ applied' = r
           /\ pc' = IF r.panic THEN "panic" ELSE "applied"
    /\ UNCHANGED <<overflow_checks, coder, signal, a_0, a_1, x_hat>>
    /\ UNCHANGED <<filterVars, signalVars, twoDVars, dwtVars, imageVars>>

NextApply == ApplyFilter

SpecApply == InitApply /\ [][NextApply]_vars

\* C16: for every filter of L >= 1 stored coefficients and every signal of
\* N >= 1 samples, apply returns, and returns exactly N samples.
C16_ApplyReturnsNSamples ==
    /\ pc # "panic"
    /\ pc = "applied" => Len(applied.out) = Len(signal)

\* what the code does establish: the same for every filter but a
\* whole-sample filter of one stored coefficient, on which a debug build
\* panics and a release build returns no samples
ApplyLengthFromTwoTaps ==
    IF filter.class \in WholeSampleClasses /\ Len(filter.coefficients) = 1
    THEN /\ pc = "panic" => overflow_checks
         /\ pc = "applied" => ~overflow_checks /\ applied.out = <<>>
    ELSE /\ pc # "panic"
         /\ pc = "applied" => Len(applied.out) = Len(signal)

\* the extended signal apply convolves: the samples its SignalIter yields
ExtendedSignal ==
    Only({[r \in 1..Len(ext.items) |-> Deref(signal, ext.items[r])] :
             ext \in {CollectSignal(signal, SignalIntoIter(KindOf(filter)),
                                    overflow_checks)}})

\* the index of the convolution that output k (from 1) is claimed to hold
ValidIndex(k) == FilterLen(filter) \div 2 - 1 + (k - 1)

\* every tap of the convolution sum at index i meets an extended sample
AllTapsMeetSamples(i) ==
    \A j \in 0..(FilterLen(filter) - 1) :
        i - j >= 0 /\ i - j < Len(ExtendedSignal)

\* C19: for a signal of N >= filter.len() samples, output k of apply is the
\* convolution sum at index b + k, b = floor(filter.len() / 2) - 1, and every
\* one of the filter.len() taps of that sum meets an existing extended sample.
C19_ApplyValidRange ==
    (pc = "applied" /\ Len(signal) >= FilterLen(filter)) =>
        \A k \in 1..Len(applied.out) :
            /\ applied.out[k] =
                   DiagSum(Coefficients(filter), ExtendedSignal, ValidIndex(k), 0)
            /\ AllTapsMeetSamples(ValidIndex(k))

\* the taps of the sum at index i that meet an extended sample
TapsMet(i) ==
    Cardinality({j \in 0..(FilterLen(filter) - 1) :
                    i - j >= 0 /\ i - j < Len(ExtendedSignal)})

\* what the code does establish: output k is the sum at index b + k over the
\* taps that meet a sample; the first outputs miss the taps that fall before
\* the first extended sample
ApplyPartialSums ==
    (pc = "applied" /\ Len(signal) >= FilterLen(filter)) =>
        \A k \in 1..Len(applied.out) :
            /\ applied.out[k] =
                   DiagSum(Coefficients(filter), ExtendedSignal, ValidIndex(k), 0)
            /\ TapsMet(ValidIndex(k)) =
                   Min(FilterLen(filter), ValidIndex(k) + 1)

(***************************************************************************)
(* Filter::invert applied twice, checked under SpecFilter.                 *)
(***************************************************************************)
\* C20: invert is not an involution: f.invert().invert() has the class and
\* the number of stored coefficients of f, and each stored coefficient is
\* the negation of the corresponding coefficient of f.
C20_InvertTwiceNegates ==
    (pc = "filter" /\ inverted = 2) =>
        /\ filter.class = orig.class
        /\ Len(filter.coefficients) = Len(orig.coefficients)
        /\ \A k \in 1..Len(orig.coefficients) :
               filter.coefficients[k] = -orig.coefficients[k]
        /\ filter # orig

\* HSA [1, 2, 3] inverted twice is HSA [-1, -2, -3]
C20_Witness ==
    /\ pc = "filter" /\ inverted = 2
    /\ orig = MkFilter("HSA", <<1, 2, 3>>)
    /\ filter = MkFilter("HSA", <<-1, -2, -3>>)

(***************************************************************************)
(* The length of the swt signal extension, checked under SpecSignal.       *)
(***************************************************************************)
\* the number of items the extension of its kind is claimed to yield
ClaimedItems == IF siter.kind = "WholeSample" THEN 2 * Len(sig) - 1 ELSE 2 * Len(sig)

\* a call of next made before any call has returned None: it returns without
\* panic, leaves index and period_count without underflow, yields a sample
\* of the signal (s0 first) while fewer than the claimed number of items
\* have been yielded, and None once they have
FiniteRunStep ==
    (pc = "signal" /\ snone = 0) =>
        /\ pc' = "signal"
        /\ siter'.index >= 0
        /\ siter'.period_count \in 0..siter.period_count
        /\ IF Len(sout) < ClaimedItems
           THEN /\ snone' = 0
                /\ Len(sout') = Len(sout) + 1
                /\ SubSeq(sout', 1, Len(sout)) = sout
                /\ sout'[Len(sout')] \in 0..(Len(sig) - 1)
                /\ sout'[1] = 0
           ELSE /\ snone' = 1
                /\ sout' = sout

FiniteRunHalfSample ==
    /\ sig = Ramp(3)
    /\ siter.kind = "HalfSample"
    /\ sout = <<0, 1, 2, 2, 1, 0>>
    /\ snone = 1 /\ siter.period_count = 0

====
